---- MODULE Spec2Model ----
(***************************************************************************)
(* Model of src/src/app.py: the call_llm helper, the module-level          *)
(* configuration it reads, two interleaved invocations of it (SpecPair)    *)
(* and the form handler `process` that calls it twice (SpecProcess).       *)
(*                                                                         *)
(* A Python string is a sequence of characters.  The characters that vary  *)
(* are those of Char; every fixed literal of the source (a log format, an  *)
(* error tag) is one piece of the sequence, written in ASCII               *)
(* transliteration because the module is ASCII only.                       *)
(***************************************************************************)
EXTENDS Integers, Sequences, FiniteSets, TLC

\* ------------------------------------------------------------------ bounds
MaxLines == 2      \* longest list of text lines given to call_llm
MaxCalls == 2      \* invocations of call_llm in one behaviour

\* ------------------------------------------------------- character strings
Char == {"a", "k", "\n"}

Contains(s, k) ==
  \E i \in 0..(Len(s) - Len(k)) : SubSeq(s, i + 1, i + Len(k)) = k

StartsWith(s, p) == Len(p) <= Len(s) /\ SubSeq(s, 1, Len(p)) = p

\* "sep".join(parts) for a list of strings
RECURSIVE Join(_, _)
Join(sep, parts) ==
  IF parts = <<>> THEN <<>>
  ELSE IF Len(parts) = 1 THEN parts[1]
  ELSE parts[1] \o sep \o Join(sep, Tail(parts))

DigitChar(d) == CASE d = 0 -> "0" [] d = 1 -> "1" [] d = 2 -> "2" [] d = 3 -> "3"
                  [] d = 4 -> "4" [] d = 5 -> "5" [] d = 6 -> "6" [] d = 7 -> "7"
                  [] d = 8 -> "8" [] d = 9 -> "9"

\* decimal rendering of a non-negative int (%d, %s and {} of an int)
RECURSIVE IntStr(_)
IntStr(n) == IF n < 10 THEN <<DigitChar(n)>>
             ELSE IntStr(n \div 10) \o <<DigitChar(n % 10)>>

\* the escaping that repr() and json.dumps() apply inside a quoted string
RECURSIVE Escape(_)
Escape(s) ==
  IF s = <<>> THEN <<>>
  ELSE (IF Head(s) = "\n" THEN <<"\\", "n">> ELSE <<Head(s)>>) \o Escape(Tail(s))

\* ---------------------------------------------------------- Python values
\* scalars: None, an int, a str
PyNone == [t |-> "none", s |-> <<>>, n |-> 0]
PyInt(i) == [t |-> "int", s |-> <<>>, n |-> i]
PyString(x) == [t |-> "str", s |-> x, n |-> 0]

\* truth value of a scalar (None and "" are false)
Truthy(v) == CASE v.t = "none" -> FALSE
               [] v.t = "int" -> v.n # 0
               [] v.t = "str" -> v.s # <<>>

\* values that resp.json() can yield: a scalar, a list of scalars, or a
\* mapping from keys to scalars (entries: sequence of <<key, scalar>>)
JScalar(v) == [t |-> "scalar", v |-> v, items |-> <<>>, entries |-> <<>>]
JList(items) == [t |-> "list", v |-> PyNone, items |-> items, entries |-> <<>>]
JDict(entries) == [t |-> "dict", v |-> PyNone, items |-> <<>>, entries |-> entries]

HasKey(d, key) == \E i \in 1..Len(d.entries) : d.entries[i][1] = key
GetKey(d, key) ==
  d.entries[CHOOSE i \in 1..Len(d.entries) : d.entries[i][1] = key][2]

\* repr() of a scalar
ScalarRepr(v) == CASE v.t = "none" -> <<"None">>
                   [] v.t = "int" -> IntStr(v.n)
                   [] v.t = "str" -> <<"'">> \o Escape(v.s) \o <<"'">>

\* str() of a scalar: a str is itself
ScalarStr(v) == IF v.t = "str" THEN v.s ELSE ScalarRepr(v)

\* json.dumps() of a scalar
ScalarJson(v) == CASE v.t = "none" -> <<"null">>
                   [] v.t = "int" -> IntStr(v.n)
                   [] v.t = "str" -> <<"\"">> \o Escape(v.s) \o <<"\"">>

\* ", ".join of the rendered items of a list or mapping
CommaJoin(parts) == Join(<<",", " ">>, parts)

EntryRepr(en) == ScalarRepr(PyString(en[1])) \o <<":", " ">> \o ScalarRepr(en[2])
EntryJson(en) == ScalarJson(PyString(en[1])) \o <<":", " ">> \o ScalarJson(en[2])

\* str() of a parsed value, as "%s" and f"{err}" render it
PyStr(d) ==
  CASE d.t = "scalar" -> ScalarStr(d.v)
    [] d.t = "list" ->
         <<"[">> \o CommaJoin([i \in 1..Len(d.items) |-> ScalarRepr(d.items[i])])
           \o <<"]">>
    [] d.t = "dict" ->
         <<"{">> \o CommaJoin([i \in 1..Len(d.entries) |-> EntryRepr(d.entries[i])])
           \o <<"}">>

\* json.dumps() of a parsed value
JsonDumps(d) ==
  CASE d.t = "scalar" -> ScalarJson(d.v)
    [] d.t = "list" ->
         <<"[">> \o CommaJoin([i \in 1..Len(d.items) |-> ScalarJson(d.items[i])])
           \o <<"]">>
    [] d.t = "dict" ->
         <<"{">> \o CommaJoin([i \in 1..Len(d.entries) |-> EntryJson(d.entries[i])])
           \o <<"}">>

\* ------------------------------------------------------------ the inputs
\* text of one line, or of one message's content
Lines == {<<>>, <<"a">>, <<"k">>}

\* an element of the `messages` argument: a str or a role/content dict
MsgLine(x) == [t |-> "str", s |-> x, role |-> <<>>, content |-> <<>>]
MsgObject(r, c) == [t |-> "dict", s |-> <<>>, role |-> r, content |-> c]

RECURSIVE SeqsUpTo(_, _)
SeqsUpTo(S, n) ==
  IF n = 0 THEN {<<>>}
  ELSE LET shorter == SeqsUpTo(S, n - 1)
       IN shorter \cup {Append(q, x) : q \in {r \in shorter : Len(r) = n - 1}, x \in S}

\* lists of text lines (the empty list included)
TextPrompts == SeqsUpTo({MsgLine(x) : x \in Lines}, MaxLines)
\* lists of role/content message objects
ObjectPrompts == {<<MsgObject(<<"user">>, c)>> : c \in Lines}
Prompts == TextPrompts \cup ObjectPrompts

ModelNames == {<<"claude-sonnet-4-5-20250929">>, <<"k">>}

\* os.getenv("MENTORPIECE_API_KEY"): unset, empty, or a token
ApiKeys == {PyNone, PyString(<<>>), PyString(<<"k">>), PyString(<<"k", "a">>)}

DEFAULT_ENDPOINT == <<"https://api.mentorpiece.org/v1/process-ai-request">>
Endpoints == {DEFAULT_ENDPOINT, <<"http://localhost:8000/v1/process-ai-request">>}

\* what a reply body parses to
ReplyValues ==
  {JDict(<< <<(<<"response">>), PyString(x)>> >>) :
      x \in {<<>>, <<"a">>, <<"k">>, <<"a", "\n", "a">>}}
  \cup {JDict(<< <<(<<"response">>), PyNone>> >>),
        JDict(<< <<(<<"response">>), PyInt(7)>> >>),
        JDict(<< <<(<<"error">>), PyString(<<"Server error">>)>> >>),
        JDict(<< <<(<<"error">>), PyString(<<"k">>)>> >>),
        JDict(<< <<(<<"data">>), PyString(<<"something">>)>>,
                 <<(<<"status">>), PyString(<<"ok">>)>> >>),
        JDict(<<>>),
        JList(<<PyString(<<"a">>)>>),
        JScalar(PyNone),
        JScalar(PyInt(7)),
        JScalar(PyString(<<"a">>))}

\* bodies that are not JSON
RawBodies == {<<>>, <<"a">>, <<"k">>, <<"<html>">>}

Statuses == {200, 399, 400, 500}

\* a response object: status_code, what json() does, and text
Response(status, raises, data, text) ==
  [status_code |-> status, json_raises |-> raises, data |-> data, text |-> text]

NoResponse == Response(0, "", JScalar(PyNone), <<>>)

Responses ==
  {Response(st, "", d, JsonDumps(d)) : st \in Statuses, d \in ReplyValues}
  \cup {Response(st, ex, JScalar(PyNone), raw) :
          st \in Statuses, ex \in {"ValueError", "Exception"}, raw \in RawBodies}

\* str(e) of a requests.RequestException
FailureTexts == {<<"Connection failed">>, <<"k">>}

\* --------------------------------------------------------------- app.py
VARIABLES MENTORPIECE_API_KEY, MENTORPIECE_ENDPOINT,
          pc, model_name, messages, headers, payload,
          posted, post, resp, e, log, outcome, result, calls,
          other, running,
          ppc, original_text, target_lang, translation, evaluation, invocations

config == <<MENTORPIECE_API_KEY, MENTORPIECE_ENDPOINT>>
\* the locals of the invocation of call_llm that is executing
frame == <<pc, model_name, messages, headers, payload,
           posted, post, resp, e, log, outcome, result>>
\* the invocation of call_llm held by the thread that is not executing
threads == <<other, running>>
\* the locals of the form handler `process`
form_state == <<ppc, original_text, target_lang, translation, evaluation, invocations>>
vars == <<MENTORPIECE_API_KEY, MENTORPIECE_ENDPOINT,
          pc, model_name, messages, headers, payload,
          posted, post, resp, e, log, outcome, result, calls,
          other, running,
          ppc, original_text, target_lang, translation, evaluation, invocations>>

\* a log record: level, formatted message, text of the attached exception
LogRecord(level, msg, exc) == [level |-> level, msg |-> msg, exc |-> exc]

NoHeaders == [h \in {} |-> <<>>]
NoPayload == [model_name |-> <<>>, prompt |-> <<>>]

\* "\n".join(messages) accepts str items only
JoinRaises(msgs) == \E i \in 1..Len(msgs) : msgs[i].t # "str"
\* mutant: a module-level request counter is appended to the prompt
PromptNumbered(msgs) ==
  Join(<<"\n">>, [i \in 1..Len(msgs) |-> msgs[i].s]) \o IntStr(calls)

Prompt(msgs) == Join(<<"\n">>, [i \in 1..Len(msgs) |-> msgs[i].s])

\* mutant: `is not None` in place of the truth test
HeadersKeyNotNone(key) ==
  IF key.t # "none"
  THEN [h \in {"Content-Type", "Authorization"} |->
          IF h = "Content-Type" THEN <<"application/json">>
          ELSE <<"Bearer ">> \o key.s]
  ELSE [h \in {"Content-Type"} |-> <<"application/json">>]

Headers(key) ==
  IF Truthy(key)
  THEN [h \in {"Content-Type", "Authorization"} |->
          IF h = "Content-Type" THEN <<"application/json">>
          ELSE <<"Bearer ">> \o key.s]
  ELSE [h \in {"Content-Type"} |-> <<"application/json">>]

\* mutant: the prompt is built in a buffer that all invocations share
PayloadShared(m, msgs) ==
  [model_name |-> m, prompt |-> other.payload.prompt \o Prompt(msgs)]

\* mutant: the credential is appended to the prompt
PayloadWithKey(m, msgs) ==
  [model_name |-> m, prompt |-> Prompt(msgs) \o MENTORPIECE_API_KEY.s]

Payload(m, msgs) == [model_name |-> m, prompt |-> Prompt(msgs)]

\* str() of the payload dict
BodyStr(p) ==
  PyStr(JDict(<< <<(<<"model_name">>), PyString(p.model_name)>>,
                 <<(<<"prompt">>), PyString(p.prompt)>> >>))

InfoRecord(m, msgs) ==
  LogRecord("INFO",
            <<"call_llm: model=">> \o m \o <<", messages=">> \o IntStr(Len(msgs))
              \o <<" lines">>,
            <<>>)

WarningRecord ==
  LogRecord("WARNING",
            <<"MENTORPIECE_API_KEY ne zadan - vypolnyaem zapros bez Authorization header">>,
            <<>>)

EntryLog(key, m, msgs) ==
  <<InfoRecord(m, msgs)>> \o (IF Truthy(key) THEN <<>> ELSE <<WarningRecord>>)

\* the locals of one invocation, as a value
Frame ==
  [pc |-> pc, model_name |-> model_name, messages |-> messages,
   headers |-> headers, payload |-> payload, posted |-> posted, post |-> post,
   resp |-> resp, e |-> e, log |-> log, outcome |-> outcome, result |-> result]

\* an invocation that has not been entered
IdleFrame ==
  [pc |-> "idle", model_name |-> <<>>, messages |-> <<>>,
   headers |-> NoHeaders, payload |-> NoPayload, posted |-> <<>>, post |-> "none",
   resp |-> NoResponse, e |-> <<>>, log |-> <<>>, outcome |-> "none",
   result |-> PyNone]

Init ==
  /\ MENTORPIECE_API_KEY \in ApiKeys
  /\ MENTORPIECE_ENDPOINT \in Endpoints
  /\ pc = "idle"
  /\ model_name = <<>>
  /\ messages = <<>>
  /\ headers = NoHeaders
  /\ payload = NoPayload
  /\ posted = <<>>
  /\ post = "none"
  /\ resp = NoResponse
  /\ e = <<>>
  /\ log = <<>>
  /\ outcome = "none"
  /\ result = PyNone
  /\ calls = 0
  /\ other = IdleFrame
  /\ running = 1
  /\ ppc = "idle"
  /\ original_text = <<>>
  /\ target_lang = <<>>
  /\ translation = PyNone
  /\ evaluation = PyNone
  /\ invocations = <<>>

\* call_llm, lines 41-55, on a list that join accepts
CallLLM(m, msgs) ==
  /\ pc = "idle"
  /\ calls < MaxCalls
  /\ ~JoinRaises(msgs)
  /\ calls' = calls + 1
  /\ model_name' = m
  /\ messages' = msgs
  /\ log' = EntryLog(MENTORPIECE_API_KEY, m, msgs)
  /\ headers' = Headers(MENTORPIECE_API_KEY)
  /\ payload' = Payload(m, msgs)
  /\ pc' = "post"
  /\ posted' = <<>>
  /\ post' = "none"
  /\ resp' = NoResponse
  /\ e' = <<>>
  /\ outcome' = "none"
  /\ result' = PyNone
  /\ UNCHANGED <<config, threads, form_state>>

\* call_llm, lines 41-47, on a list holding a non-str item: join raises
CallLLMTypeError(m, msgs) ==
  /\ pc = "idle"
  /\ calls < MaxCalls
  /\ JoinRaises(msgs)
  /\ calls' = calls + 1
  /\ model_name' = m
  /\ messages' = msgs
  /\ log' = EntryLog(MENTORPIECE_API_KEY, m, msgs)
  /\ headers' = NoHeaders
  /\ payload' = NoPayload
  /\ pc' = "done"
  /\ posted' = <<>>
  /\ post' = "none"
  /\ resp' = NoResponse
  /\ e' = <<>>
  /\ outcome' = "raised"
  /\ result' = PyString(<<"TypeError">>)
  /\ UNCHANGED <<config, threads, form_state>>

TIMEOUT == 15

\* the arguments of requests.post(MENTORPIECE_ENDPOINT, headers=, json=, timeout=)
Request(url, hdrs, body) ==
  [url |-> url, headers |-> hdrs, json |-> body, timeout |-> TIMEOUT]

NETWORK_ERROR_TAG == <<"[Setevaya oshibka]">>
API_ERROR_TAG == <<"[Oshibka API ">>
INVALID_JSON_MESSAGE == <<"[Oshibka] Nevalidnyj JSON v otvete ot LLM">>
UNEXPECTED_FORMAT_TAG == <<"[Oshibka] Nepredvidennyj format otveta: ">>

\* mutant: the description of the failure is dropped
NetworkErrorResultNoText(x) == NETWORK_ERROR_TAG

\* f"[network error tag] {str(e)}"
NetworkErrorResult(x) == NETWORK_ERROR_TAG \o <<" ">> \o x

\* mutant: the `response` key is looked for before the status
IsApiErrorUnlessResponse(r) ==
  /\ r.status_code >= 400
  /\ ~(r.json_raises = "" /\ r.data.t = "dict" /\ HasKey(r.data, <<"response">>))

\* mutant: status 400 itself is not an error
IsApiErrorAbove400(r) == r.status_code > 400

\* resp.status_code >= 400
IsApiError(r) == r.status_code >= 400

\* err = resp.json(), or resp.text when json() raises anything
ErrorBody(r) == IF r.json_raises = "" THEN PyStr(r.data) ELSE r.text

\* f"[API error tag {resp.status_code}] {err}"
ApiErrorResult(r) ==
  API_ERROR_TAG \o IntStr(r.status_code) \o <<"]", " ">> \o ErrorBody(r)

\* mutant: the unparsed body is handed back
ParseErrorResultRaw(r) == r.text

\* the string returned when json() raises ValueError
ParseErrorResult(r) == INVALID_JSON_MESSAGE

\* isinstance(data, dict) and "response" in data
HasResponse(data) == data.t = "dict" /\ HasKey(data, <<"response">>)

\* mutant: data.get("response") or json.dumps(data)
SuccessResultOrDump(data) ==
  IF Truthy(GetKey(data, <<"response">>)) THEN GetKey(data, <<"response">>)
  ELSE PyString(JsonDumps(data))

\* data["response"]
SuccessResult(data) == GetKey(data, <<"response">>)

\* f"[unexpected format tag]{json.dumps(data)}"
UnexpectedFormatResult(data) == UNEXPECTED_FORMAT_TAG \o JsonDumps(data)

SendPost ==
  /\ pc = "post"
  /\ posted' = Append(posted, Request(MENTORPIECE_ENDPOINT, headers, payload))

\* lines 57-60: requests.post raises a requests.RequestException
PostRaisesRequestException(x) ==
  /\ SendPost
  /\ post' = "RequestException"
  /\ e' = x
  /\ log' = Append(log, LogRecord("ERROR",
                     <<"Network error when calling LLM API: ">> \o x, x))
  /\ outcome' = "returned"
  /\ result' = PyString(NetworkErrorResult(x))
  /\ pc' = "done"
  /\ UNCHANGED <<config, threads, form_state, model_name, messages, headers, payload, resp, calls>>

\* line 57: requests.post raises an exception that is not a RequestException
\* (no handler: it leaves call_llm)
PostRaisesOther ==
  /\ SendPost
  /\ post' = "Exception"
  /\ outcome' = "raised"
  /\ result' = PyString(<<"Exception">>)
  /\ pc' = "done"
  /\ UNCHANGED <<config, threads, form_state, model_name, messages, headers, payload, resp, e, log, calls>>

\* line 57: requests.post returns a response object
PostReturns(r) ==
  /\ SendPost
  /\ post' = "response"
  /\ resp' = r
  /\ pc' = "classify"
  /\ UNCHANGED <<config, threads, form_state, model_name, messages, headers, payload, e, log,
                 outcome, result, calls>>

Classified ==
  /\ pc = "classify"
  /\ pc' = "done"
  /\ UNCHANGED <<config, threads, form_state, model_name, messages, headers, payload, posted, post,
                 resp, e, calls>>

\* lines 61-67
ReturnApiError ==
  /\ Classified
  /\ IsApiError(resp)
  /\ log' = Append(log, LogRecord("ERROR",
                     <<"LLM API returned error status ">> \o IntStr(resp.status_code)
                       \o <<":", " ">> \o ErrorBody(resp), <<>>))
  /\ outcome' = "returned"
  /\ result' = PyString(ApiErrorResult(resp))

\* lines 68-72: json() raises ValueError
ReturnParseError ==
  /\ Classified
  /\ ~IsApiError(resp)
  /\ resp.json_raises = "ValueError"
  /\ log' = Append(log, LogRecord("ERROR",
                     <<"Invalid JSON received from LLM API">>, <<"ValueError">>))
  /\ outcome' = "returned"
  /\ result' = PyString(ParseErrorResult(resp))

\* lines 68-70: json() raises an exception that is not a ValueError
\* (no handler: it leaves call_llm)
JsonRaisesOther ==
  /\ Classified
  /\ ~IsApiError(resp)
  /\ resp.json_raises = "Exception"
  /\ outcome' = "raised"
  /\ result' = PyString(<<"Exception">>)
  /\ UNCHANGED log

\* lines 73-74
ReturnResponse ==
  /\ Classified
  /\ ~IsApiError(resp)
  /\ resp.json_raises = ""
  /\ HasResponse(resp.data)
  /\ outcome' = "returned"
  /\ result' = SuccessResult(resp.data)
  /\ UNCHANGED log

\* lines 75-76
ReturnUnexpectedFormat ==
  /\ Classified
  /\ ~IsApiError(resp)
  /\ resp.json_raises = ""
  /\ ~HasResponse(resp.data)
  /\ log' = Append(log, LogRecord("ERROR",
                     <<"Unexpected response format from LLM API: ">>
                       \o PyStr(resp.data), <<>>))
  /\ outcome' = "returned"
  /\ result' = PyString(UnexpectedFormatResult(resp.data))

\* the caller takes the outcome; the frame of the call is gone
Return ==
  /\ pc = "done"
  /\ pc' = "idle"
  /\ model_name' = <<>>
  /\ messages' = <<>>
  /\ headers' = NoHeaders
  /\ payload' = NoPayload
  /\ posted' = <<>>
  /\ post' = "none"
  /\ resp' = NoResponse
  /\ e' = <<>>
  /\ log' = <<>>
  /\ outcome' = "none"
  /\ result' = PyNone
  /\ UNCHANGED <<config, threads, form_state, calls>>

Next ==
  \/ \E m \in ModelNames, msgs \in Prompts : CallLLM(m, msgs)
  \/ \E m \in ModelNames, msgs \in Prompts : CallLLMTypeError(m, msgs)
  \/ \E x \in FailureTexts : PostRaisesRequestException(x)
  \/ PostRaisesOther
  \/ \E r \in Responses : PostReturns(r)
  \/ ReturnApiError
  \/ ReturnParseError
  \/ JsonRaisesOther
  \/ ReturnResponse
  \/ ReturnUnexpectedFormat
  \/ Return

Spec == Init /\ [][Next]_vars

TypeOK ==
  /\ pc \in {"idle", "post", "classify", "done"}
  /\ outcome \in {"none", "returned", "raised"}
  /\ post \in {"none", "response", "RequestException", "Exception"}
  /\ calls \in 0..MaxCalls
  /\ Len(posted) <= 1

\* ------------------------------------------- two invocations interleaved
\* the interpreter suspends the executing invocation and resumes the other
\* one; the locals of each travel with it, the configuration is shared
Switch ==
  /\ other' = Frame
  /\ pc' = other.pc
  /\ model_name' = other.model_name
  /\ messages' = other.messages
  /\ headers' = other.headers
  /\ payload' = other.payload
  /\ posted' = other.posted
  /\ post' = other.post
  /\ resp' = other.resp
  /\ e' = other.e
  /\ log' = other.log
  /\ outcome' = other.outcome
  /\ result' = other.result
  /\ running' = 3 - running
  /\ UNCHANGED <<config, form_state, calls>>

\* the inputs of the interleaved invocations: a part of the inputs above
PairPrompts ==
  {msgs \in Prompts :
     Len(msgs) <= 1 /\ \A i \in 1..Len(msgs) : msgs[i] \in {MsgLine(<<"a">>),
                                                           MsgObject(<<"user">>, <<"a">>)}}

PairResponses ==
  {r \in Responses :
     \/ r.status_code = 200 /\ r.json_raises = ""
          /\ r.data \in {JDict(<< <<(<<"response">>), PyString(<<"a">>)>> >>),
                         JDict(<<>>)}
     \/ r.status_code = 500 /\ r.json_raises = ""
          /\ r.data = JDict(<< <<(<<"error">>), PyString(<<"Server error">>)>> >>)
     \/ r.status_code = 200 /\ r.json_raises # "" /\ r.text = <<"a">>}

PairFailureTexts == {x \in FailureTexts : x = <<"Connection failed">>}

NextPair ==
  \/ \E m \in ModelNames, msgs \in PairPrompts : CallLLM(m, msgs)
  \/ \E m \in ModelNames, msgs \in PairPrompts : CallLLMTypeError(m, msgs)
  \/ \E x \in PairFailureTexts : PostRaisesRequestException(x)
  \/ PostRaisesOther
  \/ \E r \in PairResponses : PostReturns(r)
  \/ ReturnApiError
  \/ ReturnParseError
  \/ JsonRaisesOther
  \/ ReturnResponse
  \/ ReturnUnexpectedFormat
  \/ Return
  \/ Switch

SpecPair == Init /\ [][NextPair]_vars

\* ------------------------------------------------- the form handler
TRANSLATE_MODEL == <<"Qwen/Qwen3-VL-30B-A3B-Instruct">>
JUDGE_MODEL == <<"claude-sonnet-4-5-20250929">>
DEFAULT_LANG == <<"English">>
EMPTY_TEXT_MESSAGE == <<"Pozhalujsta, vvedite tekst dlya perevoda.">>

Whitespace == {" ", "\n"}

\* str.strip()
RECURSIVE LStrip(_)
LStrip(x) == IF x # <<>> /\ Head(x) \in Whitespace THEN LStrip(Tail(x)) ELSE x
RECURSIVE RStrip(_)
RStrip(x) ==
  IF x # <<>> /\ x[Len(x)] \in Whitespace THEN RStrip(SubSeq(x, 1, Len(x) - 1)) ELSE x
Strip(x) == RStrip(LStrip(x))

\* request.form.get("original_text", ""): absent, blank, or text
FormTexts == {<<>>, <<" ">>, <<"\n">>, <<"a">>, <<" ", "a", "\n">>, <<"a", "\n", "k">>}
\* request.form.get("target_lang", "English")
FormLangs == {DEFAULT_LANG, <<"a">>}

\* a list item holding a value of any type (a str is a line)
MsgValue(v) ==
  IF v.t = "str" THEN MsgLine(v.s)
  ELSE [t |-> v.t, s |-> <<>>, role |-> <<>>, content |-> <<>>]

\* translate_prompt, lines 114-119
TranslatePrompt(text, lang) ==
  <<MsgLine(<<"Perevedi sleduyushchij tekst na ">> \o lang \o <<".">>),
    MsgLine(<<"Trebovaniya: perevedi tochno sohranyaya smysl, stil' i punktuaciyu; ne dobavlyaj poyasnenij.">>),
    MsgLine(<<"Tekst dlya perevoda:">>),
    MsgLine(text)>>

\* judge_prompt, lines 126-133
JudgePrompt(text, tr) ==
  <<MsgLine(<<"Oceni kachestvo perevoda ot 1 do 10 i argumentiruj.">>),
    MsgLine(<<"Kriterii ocenki: sohranenie smysla, adekvatnost' stilya, grammatika i estestvennost' celevogo yazyka.">>),
    MsgLine(<<"Original:">>),
    MsgLine(text),
    MsgLine(<<"Perevod:">>),
    MsgValue(tr)>>

\* one finished invocation of call_llm, as the handler saw it
Invocation == [model_name |-> model_name, messages |-> messages,
               outcome |-> outcome, result |-> result]

\* the invocation is over and its locals are gone
LeaveFrame ==
  /\ pc = "done"
  /\ pc' = "idle"
  /\ model_name' = <<>>
  /\ messages' = <<>>
  /\ headers' = NoHeaders
  /\ payload' = NoPayload
  /\ posted' = <<>>
  /\ post' = "none"
  /\ resp' = NoResponse
  /\ e' = <<>>
  /\ log' = <<>>
  /\ outcome' = "none"
  /\ result' = PyNone
  /\ invocations' = Append(invocations, Invocation)
  /\ UNCHANGED <<config, threads, calls>>

\* lines 104-110: the form arrives; a blank text is answered at once
Submit(text, lang) ==
  /\ ppc = "idle"
  /\ pc = "idle"
  /\ original_text' = Strip(text)
  /\ target_lang' = lang
  /\ IF Strip(text) = <<>>
     THEN /\ ppc' = "done"
          /\ translation' = PyString(EMPTY_TEXT_MESSAGE)
          /\ evaluation' = PyString(<<>>)
     ELSE /\ ppc' = "translate"
          /\ UNCHANGED <<translation, evaluation>>
  /\ UNCHANGED <<config, frame, calls, threads, invocations>>

\* line 122: call_llm is entered for the translation
Translate ==
  /\ ppc = "translate"
  /\ CallLLM(TRANSLATE_MODEL, TranslatePrompt(original_text, target_lang))

\* line 122: the translation call returned
TranslateReturns ==
  /\ ppc = "translate"
  /\ outcome = "returned"
  /\ LeaveFrame
  /\ translation' = result
  /\ ppc' = "judge"
  /\ UNCHANGED <<original_text, target_lang, evaluation>>

\* line 122: the translation call raised; the exception leaves the handler
TranslateRaises ==
  /\ ppc = "translate"
  /\ outcome = "raised"
  /\ LeaveFrame
  /\ ppc' = "failed"
  /\ UNCHANGED <<original_text, target_lang, translation, evaluation>>

\* line 135: call_llm is entered for the evaluation
Judge ==
  /\ ppc = "judge"
  /\ CallLLM(JUDGE_MODEL, JudgePrompt(original_text, translation))

\* line 135: call_llm is entered with a translation that is not a str
JudgeTypeError ==
  /\ ppc = "judge"
  /\ CallLLMTypeError(JUDGE_MODEL, JudgePrompt(original_text, translation))

\* lines 135-138: the evaluation call returned; the page is rendered
JudgeReturns ==
  /\ ppc = "judge"
  /\ outcome = "returned"
  /\ LeaveFrame
  /\ evaluation' = result
  /\ ppc' = "done"
  /\ UNCHANGED <<original_text, target_lang, translation>>

\* line 135: the evaluation call raised; the exception leaves the handler
JudgeRaises ==
  /\ ppc = "judge"
  /\ outcome = "raised"
  /\ LeaveFrame
  /\ ppc' = "failed"
  /\ UNCHANGED <<original_text, target_lang, translation, evaluation>>

\* the replies met by the handler's calls: a part of the replies above
ProcessResponses ==
  {r \in Responses :
     \/ r.status_code = 200 /\ r.json_raises = ""
          /\ r.data \in {JDict(<< <<(<<"response">>), PyString(<<"a">>)>> >>),
                         JDict(<< <<(<<"response">>), PyNone>> >>),
                         JDict(<<>>)}
     \/ r.status_code = 500 /\ r.json_raises = ""
          /\ r.data = JDict(<< <<(<<"error">>), PyString(<<"Server error">>)>> >>)
     \/ r.status_code = 200 /\ r.json_raises # "" /\ r.text = <<"a">>}

NextProcess ==
  \/ \E text \in FormTexts, lang \in FormLangs : Submit(text, lang)
  \/ Translate
  \/ TranslateReturns
  \/ TranslateRaises
  \/ Judge
  \/ JudgeTypeError
  \/ JudgeReturns
  \/ JudgeRaises
  \/ \E x \in PairFailureTexts : PostRaisesRequestException(x)
  \/ PostRaisesOther
  \/ \E r \in ProcessResponses : PostReturns(r)
  \/ ReturnApiError
  \/ ReturnParseError
  \/ JsonRaisesOther
  \/ ReturnResponse
  \/ ReturnUnexpectedFormat

SpecProcess == Init /\ [][NextProcess]_vars

\* ------------------------------------------------------------ the claims
KeySet == Truthy(MENTORPIECE_API_KEY)
K == MENTORPIECE_API_KEY.s
Replied == pc = "done" /\ post = "response"
ObjectMessages == messages # <<>> /\ \A i \in 1..Len(messages) : messages[i].t = "dict"
TextLines == [i \in 1..Len(messages) |-> messages[i].s]

\* C1: every call of call_llm ends by returning a str; no exception leaves it
C1_NeverRaises == pc = "done" => (outcome = "returned" /\ result.t = "str")

\* C2 as stated: the body given to requests.post never contains the
\* credential, whatever the prompt, and Authorization is "Bearer " + K
C2_BodyNeverContainsKey ==
  KeySet => \A i \in 1..Len(posted) :
    /\ ~Contains(BodyStr(posted[i].json), K)
    /\ "Authorization" \in DOMAIN posted[i].headers
    /\ posted[i].headers["Authorization"] = <<"Bearer ">> \o K

\* C2 (amended): in every POST issued with a credential configured, the
\* Authorization header is "Bearer " + K, the body is exactly the model name and
\* the newline-joined lines, and the credential is in the body only if the
\* caller's model name or joined prompt already contains it
C2_KeyOnlyInHeader ==
  KeySet => \A i \in 1..Len(posted) :
    /\ DOMAIN posted[i].headers = {"Content-Type", "Authorization"}
    /\ posted[i].headers["Authorization"] = <<"Bearer ">> \o K
    /\ posted[i].headers["Content-Type"] = <<"application/json">>
    /\ posted[i].url = MENTORPIECE_ENDPOINT
    /\ posted[i].json = [model_name |-> model_name,
                         prompt |-> Join(<<"\n">>, TextLines)]
    /\ Contains(BodyStr(posted[i].json), K)
         => (Contains(model_name, K) \/ Contains(Join(<<"\n">>, TextLines), K))

\* a POST was issued with a credential configured and a prompt that holds it
C2_Witness ==
  /\ KeySet
  /\ Len(posted) = 1
  /\ Contains(Join(<<"\n">>, TextLines), K)
  /\ ~Contains(model_name, K)

\* C3: no log record of a call (message or attached exception) contains the
\* credential
C3_NoKeyInLogs ==
  KeySet => \A i \in 1..Len(log) :
    ~Contains(log[i].msg, K) /\ ~Contains(log[i].exc, K)

\* C4: a reply with status below 400 whose JSON is {"response": S}, S a
\* string, makes call_llm return exactly S
C4_SuccessReturnsResponse ==
  (Replied /\ resp.status_code < 400 /\ resp.json_raises = ""
     /\ resp.data.t = "dict" /\ Len(resp.data.entries) = 1
     /\ resp.data.entries[1][1] = <<"response">>
     /\ resp.data.entries[1][2].t = "str")
    => /\ outcome = "returned"
       /\ result.t = "str"
       /\ result.s = resp.data.entries[1][2].s

\* the reply {"response": ""} was received and the empty string returned
C4_Witness ==
  /\ Replied
  /\ resp.status_code = 200
  /\ resp.json_raises = ""
  /\ resp.data = JDict(<< <<(<<"response">>), PyString(<<>>)>> >>)
  /\ result = PyString(<<>>)

\* C5: a 200 reply whose JSON is a mapping without a `response` key makes
\* call_llm return the empty string
C5_MissingKeyReturnsEmpty ==
  (Replied /\ resp.status_code = 200 /\ resp.json_raises = ""
     /\ resp.data.t = "dict" /\ ~HasKey(resp.data, <<"response">>))
    => (outcome = "returned" /\ result = PyString(<<>>))

\* C6: a call given role/content message objects sends them under the
\* `messages` key of the body, each content unchanged
C6_MessagesSentVerbatim ==
  (pc = "done" /\ ObjectMessages)
    => /\ Len(posted) = 1
       /\ "messages" \in DOMAIN posted[1].json
       /\ Len(posted[1].json.messages) = Len(messages)
       /\ \A i \in 1..Len(messages) :
            posted[1].json.messages[i].content = messages[i].content

\* C7: when requests.post raises a RequestException, call_llm returns a str
\* that starts with the network-error tag and contains str(e)
C7_TransportFailureReturned ==
  (pc = "done" /\ post = "RequestException")
    => /\ outcome = "returned"
       /\ result.t = "str"
       /\ StartsWith(result.s, <<"[Setevaya oshibka]">>)
       /\ e # <<>>
       /\ Contains(result.s, e)

\* requests.post raised "Connection failed" and the call is over
C7_Witness ==
  /\ pc = "done"
  /\ post = "RequestException"
  /\ e = <<"Connection failed">>
  /\ outcome = "returned"

\* C8: a reply with status >= 400 makes call_llm return a str that starts with
\* the API-error tag and contains the status code and the error body (the
\* parsed value when json() succeeds, the text otherwise); for 500 and
\* {"error": "Server error"} it contains "500"
C8_ApiErrorReturned ==
  (Replied /\ resp.status_code >= 400)
    => /\ outcome = "returned"
       /\ result.t = "str"
       /\ StartsWith(result.s, <<"[Oshibka API ">>)
       /\ Contains(result.s, IntStr(resp.status_code))
       /\ resp.json_raises = "" => Contains(result.s, PyStr(resp.data))
       /\ resp.json_raises # "" => (resp.text # <<>> => Contains(result.s, resp.text))
       /\ (resp.status_code = 500
             /\ resp.data = JDict(<< <<(<<"error">>), PyString(<<"Server error">>)>> >>)
             /\ resp.json_raises = "")
            => /\ Contains(result.s, <<"5", "0", "0">>)
               /\ Contains(result.s, <<"Server error">>)

\* the reply 500 {"error": "Server error"} was received and the call is over
C8_Witness ==
  /\ Replied
  /\ resp.status_code = 500
  /\ resp.json_raises = ""
  /\ resp.data = JDict(<< <<(<<"error">>), PyString(<<"Server error">>)>> >>)
  /\ outcome = "returned"

C10_CatchAll ==
  (Replied /\ resp.status_code < 400 /\ resp.json_raises = "Exception")
    => /\ outcome = "returned"
       /\ result.t = "str"
       /\ Contains(result.s, <<"Nepredvidennaya oshibka">>)

\* C11: every call of call_llm issues exactly one POST, on every path
C11_ExactlyOnePost == pc = "done" => Len(posted) = 1

\* C12: every request carries Content-Type: application/json, and carries
\* Authorization if and only if the credential is set and not empty; without
\* a credential the warning is logged before the POST and a call whose prompt
\* was built still issues the POST
C12_Headers ==
  /\ \A i \in 1..Len(posted) :
       /\ "Content-Type" \in DOMAIN posted[i].headers
       /\ posted[i].headers["Content-Type"] = <<"application/json">>
       /\ ("Authorization" \in DOMAIN posted[i].headers)
            <=> (MENTORPIECE_API_KEY.t = "str" /\ MENTORPIECE_API_KEY.s # <<>>)
  /\ (pc # "idle" /\ ~(MENTORPIECE_API_KEY.t = "str" /\ MENTORPIECE_API_KEY.s # <<>>))
       => \E j \in 1..Len(log) : log[j].level = "WARNING"
  /\ (pc \in {"classify", "done"} /\ \A i \in 1..Len(messages) : messages[i].t = "str")
       => Len(posted) = 1

\* the credential is the empty string and the POST was issued after the
\* warning, without Authorization
C12_Witness ==
  /\ MENTORPIECE_API_KEY = PyString(<<>>)
  /\ Len(posted) = 1
  /\ DOMAIN posted[1].headers = {"Content-Type"}
  /\ \E j \in 1..Len(log) : log[j].level = "WARNING"

\* C15: the outcome is classified in the order transport failure, status
\* >= 400, unparseable JSON, `response` key present, anything else; a reply
\* with status >= 400 is an API error also when its JSON mapping has a
\* `response` key, and a reply below 400 whose JSON is not a mapping is
\* reported as an unexpected format, never returned as a success
C15_Precedence ==
  pc = "done" =>
    /\ post = "RequestException"
         => (outcome = "returned" /\ StartsWith(result.s, <<"[Setevaya oshibka]">>))
    /\ (post = "response" /\ resp.status_code >= 400)
         => (outcome = "returned" /\ StartsWith(result.s, <<"[Oshibka API ">>))
    /\ (post = "response" /\ resp.status_code < 400 /\ resp.json_raises = "ValueError")
         => (outcome = "returned"
               /\ result.s = <<"[Oshibka] Nevalidnyj JSON v otvete ot LLM">>)
    /\ (post = "response" /\ resp.status_code < 400 /\ resp.json_raises = ""
          /\ resp.data.t = "dict"
          /\ \E i \in 1..Len(resp.data.entries) :
               resp.data.entries[i][1] = <<"response">>)
         => (outcome = "returned"
               /\ \E i \in 1..Len(resp.data.entries) :
                    /\ resp.data.entries[i][1] = <<"response">>
                    /\ result = resp.data.entries[i][2])
    /\ (post = "response" /\ resp.status_code < 400 /\ resp.json_raises = ""
          /\ (resp.data.t # "dict"
                \/ \A i \in 1..Len(resp.data.entries) :
                     resp.data.entries[i][1] # <<"response">>))
         => (outcome = "returned"
               /\ StartsWith(result.s, <<"[Oshibka] Nepredvidennyj format otveta: ">>))

\* a reply 500 whose JSON mapping has a `response` key was reported as an API
\* error
C15_Witness ==
  /\ Replied
  /\ resp.status_code = 500
  /\ resp.json_raises = ""
  /\ resp.data = JDict(<< <<(<<"response">>), PyString(<<"a">>)>> >>)
  /\ StartsWith(result.s, <<"[Oshibka API ">>)

\* the two invocations, the executing one and the suspended one
Invocations == {Frame, other}

\* the requests of an invocation are made of its own arguments and the
\* configuration
OwnRequest(F) ==
  \A i \in 1..Len(F.posted) :
    /\ F.posted[i].url = MENTORPIECE_ENDPOINT
    /\ F.posted[i].timeout = 15
    /\ F.posted[i].json =
         [model_name |-> F.model_name,
          prompt |-> Join(<<"\n">>, [j \in 1..Len(F.messages) |-> F.messages[j].s])]

\* C13: two interleaved invocations share no mutable state: no step writes the
\* endpoint or the credential, no step of one invocation writes the locals of
\* the other, each request is made of the invocation's own arguments and the
\* configuration, and two invocations that got the same reply or failure from
\* their POST end the same way whatever their arguments were
C13_NoSharedState ==
  /\ [][/\ MENTORPIECE_API_KEY' = MENTORPIECE_API_KEY
        /\ MENTORPIECE_ENDPOINT' = MENTORPIECE_ENDPOINT]_vars
  /\ [][other' = other \/ (other' = Frame /\ Frame' = other)]_vars
  /\ [](\A F \in Invocations : OwnRequest(F))
  /\ []((Len(posted) > 0 /\ Len(other.posted) > 0)
          => posted[1].headers = other.posted[1].headers)
  /\ []((pc = "done" /\ other.pc = "done" /\ post # "none"
           /\ post = other.post /\ resp = other.resp /\ e = other.e)
          => (outcome = other.outcome /\ result = other.result))

\* both invocations are between their POST and their return, with different
\* arguments
C13_Witness ==
  /\ pc = "classify"
  /\ other.pc = "classify"
  /\ model_name # other.model_name
  /\ messages # other.messages

\* C14: two invocations with the same model name and prompt send identical
\* requests, and when the transport answers both the same way they end with
\* the same outcome and the same returned value
C14_Idempotent ==
  (pc = "done" /\ other.pc = "done"
     /\ model_name = other.model_name /\ messages = other.messages)
    => /\ posted = other.posted
       /\ (post = other.post /\ resp = other.resp /\ e = other.e)
            => (outcome = other.outcome /\ result = other.result)

\* two invocations with the same arguments got the same reply and returned
C14_Witness ==
  /\ pc = "done"
  /\ other.pc = "done"
  /\ model_name = other.model_name
  /\ messages = other.messages
  /\ Len(posted) = 1
  /\ post = "response"
  /\ resp = other.resp
  /\ outcome = "returned"
  /\ result = other.result

\* C16: a form with a blank text makes no call of call_llm; any other form
\* makes exactly two, the translation call and then the evaluation call, and
\* the last line of the evaluation prompt is the string the translation call
\* returned
C16_TwoCallsInOrder ==
  /\ (ppc = "judge" \/ (ppc = "translate" /\ pc # "idle")) => original_text # <<>>
  /\ (pc # "idle" /\ model_name = <<"claude-sonnet-4-5-20250929">>)
       => (Len(invocations) = 1 /\ invocations[1].outcome = "returned")
  /\ ppc \in {"done", "failed"} =>
       IF original_text = <<>>
       THEN invocations = <<>> /\ calls = 0
       ELSE /\ Len(invocations) = 2
            /\ invocations[1].model_name = <<"Qwen/Qwen3-VL-30B-A3B-Instruct">>
            /\ invocations[2].model_name = <<"claude-sonnet-4-5-20250929">>
            /\ invocations[1].outcome = "returned"
            /\ invocations[1].result.t = "str"
            /\ Len(invocations[2].messages) = 6
            /\ invocations[2].messages[6].t = "str"
            /\ invocations[2].messages[6].s = invocations[1].result.s

====
